---- MODULE Spec2Model ----
(***************************************************************************)
(* State-machine model of battleships/players/HumanPlayer.py: the human    *)
(* player's turn handling (request_shot, handle_input, fire, show_hit,     *)
(* await_opponent_shot) and the resolution of the opponent's shots against *)
(* the human fleet (request_hit, hit).                                     *)
(*                                                                         *)
(* Collaborators that HumanPlayer.py only calls (Player, Fleet, the boards,*)
(* engine.math.Vector2, the input handler, the game manager) are modelled  *)
(* from the specification's description of them.                           *)
(***************************************************************************)
EXTENDS Integers, FiniteSets, Sequences, Bags, TLC

\* ------------------------------------------------------------------ bounds
\* Cells per side of a board (the real boards are larger).
GridN == 2
\* Pixels per cell, ShotBoard.CELL_SIZE (the real cells are larger).
CellSize == 2
\* Turns the human player is given before the model stops the game; with
\* one per cell of the board the opponent can shoot every cell.
MaxTurns == 4
\* Lengths of the ships of a two-ship fleet; one-ship fleets use the first.
ShipLengths == <<2, 1>>

\* ------------------------------------------------------- program constants
\* Both boards are placed at Vector2(256, 256); the same value on both axes.
BoardPos == 256

\* -------------------------------------------------------------- data types
None == 0

SHOT_HIT_TYPE_MISS == "MISS"
SHOT_HIT_TYPE_HIT == "HIT"
SHOT_HIT_TYPE_HIT_AND_SUNK == "HIT_AND_SUNK"
SHOT_HIT_TYPE_GAME_OVER == "GAME_OVER"

HitTypes ==
    {SHOT_HIT_TYPE_MISS, SHOT_HIT_TYPE_HIT,
     SHOT_HIT_TYPE_HIT_AND_SUNK, SHOT_HIT_TYPE_GAME_OVER}

MOUSEBUTTONDOWN == "MOUSEBUTTONDOWN"

\* The grid cells of a board, as Vector2 values <<x, y>>.
Cells == (0 .. GridN - 1) \X (0 .. GridN - 1)

\* A ship lies on a straight line of cells, horizontal or vertical.
Line(o, len, dir) ==
    { <<o[1] + (IF dir = "h" THEN i ELSE 0), o[2] + (IF dir = "v" THEN i ELSE 0)>> :
        i \in 0 .. len - 1 }

Placements(len) ==
    { l \in { Line(o, len, d) : o \in Cells, d \in {"h", "v"} } : l \subseteq Cells }

NewShip(cells) == [cells |-> cells, damage |-> 0]

\* The fleets the game manager can hand to the player: ships placed on the
\* grid without overlap, no damage yet.
human_fleet ==
    { <<NewShip(a)>> : a \in Placements(ShipLengths[1]) }
    \cup
    { <<NewShip(pl[1]), NewShip(pl[2])>> :
        pl \in { q \in Placements(ShipLengths[1]) \X Placements(ShipLengths[2]) :
                    q[1] \cap q[2] = {} } }

\* ------------------------------------------------------------------- Fleet
ShipLength(ship) == Cardinality(ship.cells)

\* Fleet.collision_check(at, 1, 1): the ship lying on the cell, or None.
collision_check(f, at) ==
    IF \E i \in DOMAIN f : at \in f[i].cells
    THEN CHOOSE i \in DOMAIN f : at \in f[i].cells
    ELSE None

\* Fleet.damage(ship): one more point of damage on that ship.
damage(f, t) == [f EXCEPT ![t].damage = @ + 1]

\* Fleet.is_sunk(ship): the ship's damage has reached its length.
is_sunk(f, t) == f[t].damage >= ShipLength(f[t])

\* Fleet.is_sunk(): every ship of the fleet is sunk.
is_sunk_all(f) == \A i \in DOMAIN f : is_sunk(f, i)

\* ------------------------------------------------------------------ boards
\* ShotBoard.get_size(): the side of the board in pixels.
get_size == GridN * CellSize

\* ShotBoard.get_top_left(): the board is centred on its position.
get_top_left == BoardPos - (get_size \div 2)

\* engine.math.Vector2.in_rect(point, top_left, size): the closed rectangle.
in_rect(p, topl, size) ==
    /\ topl <= p[1] /\ p[1] <= topl + size
    /\ topl <= p[2] /\ p[2] <= topl + size

\* Screen positions a mouse event can carry: the board and a margin around it.
Pixels == (get_top_left - 1) .. (get_top_left + get_size + 1)

Events ==
    [type : {MOUSEBUTTONDOWN}, pos : Pixels \X Pixels]
    \cup
    [type : {"MOUSEMOTION", "KEYDOWN"}, pos : {<<get_top_left, get_top_left>>}]

\* ------------------------------------------------------------------ Player
\* Variant of PlayerFire: no coordinate is rejected.
PlayerFire_accept_all(fired, at) == [ok |-> TRUE, fired |-> fired \cup {at}]

\* Player.fire(at): a coordinate already fired upon is rejected; any other is
\* recorded and handed to the game manager.
PlayerFire(fired, at) ==
    IF at \in fired
    THEN [ok |-> FALSE, fired |-> fired]
    ELSE [ok |-> TRUE, fired |-> fired \cup {at}]

\* InputHandler.add_listener / remove_listener, on the number of registrations
\* of one listener.
add_listener(n) == n + 1

remove_listener(n) == IF n > 0 THEN n - 1 ELSE n

VARIABLES
    fleet,          \* self.fleet: the ships with their cells and damage
    shots,          \* coordinates this player has fired upon (Player)
    oppShots,       \* coordinates the opponent has fired upon (its Player)
    listeners,      \* registrations of this player in the input handler
    ship_board,     \* "None" | "visible" | "hidden"
    shot_board,     \* "None" | "visible" | "hidden"
    texts,          \* the prompt the in-game console shows
    sound,          \* the last sound played
    hitAt,          \* coordinate of the last status passed to hit()
    hitStatus,      \* the last status passed to hit()
    shipMarks,      \* markers added to the ship board (bag of <<cell, texture>>)
    shotMarks,      \* cells of the markers added to the shot board (bag)
    pending,        \* the accepted shot the game manager has yet to resolve
    phase,          \* the game manager's position in the turn: it calls
                    \* start_turn, request_shot, show_hit, end_turn and
                    \* await_opponent_shot in this order, then hands the
                    \* opponent's shot to request_hit
    lastEvent,      \* history: where the last event handled fell ("none" if none)
    requested,      \* history: the last handle_input called self.fire
    firedThisTurn   \* history: fire calls that returned true since request_shot

vars ==
    <<fleet, shots, oppShots, listeners, ship_board, shot_board, texts, sound,
      hitAt, hitStatus, shipMarks, shotMarks, pending, phase, lastEvent,
      requested, firedThisTurn>>

playerVars == <<shots, listeners, pending, lastEvent, requested, firedThisTurn>>
boardVars == <<ship_board, shot_board>>
hitVars == <<fleet, oppShots, hitAt, hitStatus, shipMarks>>

\* HumanPlayer.__init__: nothing loaded yet; the game manager holds the fleet.
Init ==
    /\ fleet \in human_fleet
    /\ shots = {}
    /\ oppShots = {}
    /\ listeners = 0
    /\ ship_board = "None"
    /\ shot_board = "None"
    /\ texts = "None"
    /\ sound = "None"
    /\ hitAt = <<>>
    /\ hitStatus = "None"
    /\ shipMarks = EmptyBag
    /\ shotMarks = EmptyBag
    /\ pending = <<>>
    /\ phase = "new"
    /\ lastEvent = "none"
    /\ requested = FALSE
    /\ firedThisTurn = 0

\* HumanPlayer.start_game
StartGame ==
    /\ phase = "new"
    /\ ship_board' = "visible"
    /\ shot_board' = "hidden"
    /\ phase' = "idle"
    /\ UNCHANGED <<playerVars, hitVars, texts, sound, shotMarks>>

\* HumanPlayer.start_turn
StartTurn ==
    /\ phase = "idle"
    /\ Cardinality(shots) < MaxTurns
    /\ texts' = "TEXT_GAME_NEW_TURN"
    /\ phase' = "turn"
    /\ UNCHANGED <<playerVars, hitVars, boardVars, sound, shotMarks>>

\* HumanPlayer.end_turn
EndTurn ==
    /\ phase = "resolved"
    /\ texts' = "TEXT_GAME_END_TURN"
    /\ phase' = "ended"
    /\ UNCHANGED <<playerVars, hitVars, boardVars, sound, shotMarks>>

\* Variant of RequestShot: the ship board is not hidden.
RequestShot_keeps_ship_board ==
    /\ phase = "turn"
    /\ texts' = "TEXT_GAME_REQ_FIRE"
    /\ shot_board' = "visible"
    /\ listeners' = add_listener(listeners)
    /\ lastEvent' = "none"
    /\ requested' = FALSE
    /\ firedThisTurn' = 0
    /\ phase' = "awaiting_input"
    /\ UNCHANGED <<ship_board, shots, pending, hitVars, sound, shotMarks>>

\* HumanPlayer.request_shot
RequestShot ==
    /\ phase = "turn"
    /\ texts' = "TEXT_GAME_REQ_FIRE"
    /\ shot_board' = "visible"
    /\ ship_board' = "hidden"
    /\ listeners' = add_listener(listeners)
    /\ lastEvent' = "none"
    /\ requested' = FALSE
    /\ firedThisTurn' = 0
    /\ phase' = "awaiting_input"
    /\ UNCHANGED <<shots, pending, hitVars, sound, shotMarks>>

\* HumanPlayer.await_opponent_shot
AwaitOpponentShot ==
    /\ phase = "ended"
    /\ shot_board' = "hidden"
    /\ ship_board' = "visible"
    /\ texts' = "TEXT_GAME_AWAIT_SHOT"
    /\ phase' = "awaiting_opponent"
    /\ UNCHANGED <<playerVars, hitVars, sound, shotMarks>>

\* Variant of fire: the sound and the prompt do not wait for the parent's
\* verdict.
fire_announce_rejected(at) ==
    LET r == PlayerFire(shots, at) IN
    IF r.ok
    THEN [ok |-> TRUE, shots |-> r.fired, pending |-> <<at>>,
          sound |-> "Fire", texts |-> "TEXT_GAME_DO_SHOOT"]
    ELSE [ok |-> FALSE, shots |-> r.fired, pending |-> pending,
          sound |-> "Fire", texts |-> "TEXT_GAME_DO_SHOOT"]

\* HumanPlayer.fire(at): the parent's verdict, with the sound and the prompt
\* of an accepted shot.
fire(at) ==
    LET r == PlayerFire(shots, at) IN
    IF r.ok
    THEN [ok |-> TRUE, shots |-> r.fired, pending |-> <<at>>,
          sound |-> "Fire", texts |-> "TEXT_GAME_DO_SHOOT"]
    ELSE [ok |-> FALSE, shots |-> r.fired, pending |-> pending,
          sound |-> sound, texts |-> texts]

\* The grid cell of a screen position: (m_pos - b_topl) // CELL_SIZE.
CellOf(m_pos) ==
    <<(m_pos[1] - get_top_left) \div CellSize, (m_pos[2] - get_top_left) \div CellSize>>

\* Where an event falls: a mouse press on the shot board, one outside it, or
\* any other event.
EventClass(event) ==
    IF event.type # MOUSEBUTTONDOWN THEN "other"
    ELSE IF get_top_left <= event.pos[1] /\ event.pos[1] <= get_top_left + get_size
            /\ get_top_left <= event.pos[2] /\ event.pos[2] <= get_top_left + get_size
         THEN "inside"
         ELSE "outside"

\* Variant of HandleInput: the bounding-rectangle check is missing.
HandleInput_no_rect_check(event) ==
    /\ listeners > 0
    /\ lastEvent' = EventClass(event)
    /\ IF event.type = MOUSEBUTTONDOWN
       THEN LET r == fire(CellOf(event.pos)) IN
            /\ requested' = TRUE
            /\ shots' = r.shots
            /\ pending' = r.pending
            /\ sound' = r.sound
            /\ texts' = r.texts
            /\ IF r.ok
               THEN /\ listeners' = remove_listener(listeners)
                    /\ firedThisTurn' = firedThisTurn + 1
                    /\ phase' = "fired"
               ELSE UNCHANGED <<listeners, firedThisTurn, phase>>
       ELSE /\ requested' = FALSE
            /\ UNCHANGED <<shots, pending, sound, texts, listeners,
                           firedThisTurn, phase>>
    /\ UNCHANGED <<hitVars, boardVars, shotMarks>>

\* Variant of HandleInput: the listener stays registered after a valid shot.
HandleInput_keep_listener(event) ==
    /\ listeners > 0
    /\ lastEvent' = EventClass(event)
    /\ IF event.type = MOUSEBUTTONDOWN
          /\ in_rect(event.pos, get_top_left, get_size)
       THEN LET r == fire(CellOf(event.pos)) IN
            /\ requested' = TRUE
            /\ shots' = r.shots
            /\ pending' = r.pending
            /\ sound' = r.sound
            /\ texts' = r.texts
            /\ IF r.ok
               THEN /\ firedThisTurn' = firedThisTurn + 1
                    /\ phase' = "fired"
                    /\ UNCHANGED listeners
               ELSE UNCHANGED <<listeners, firedThisTurn, phase>>
       ELSE /\ requested' = FALSE
            /\ UNCHANGED <<shots, pending, sound, texts, listeners,
                           firedThisTurn, phase>>
    /\ UNCHANGED <<hitVars, boardVars, shotMarks>>

\* Variant of HandleInput: the event's type is not looked at.
HandleInput_no_type_check(event) ==
    /\ listeners > 0
    /\ lastEvent' = EventClass(event)
    /\ IF in_rect(event.pos, get_top_left, get_size)
       THEN LET r == fire(CellOf(event.pos)) IN
            /\ requested' = TRUE
            /\ shots' = r.shots
            /\ pending' = r.pending
            /\ sound' = r.sound
            /\ texts' = r.texts
            /\ IF r.ok
               THEN /\ listeners' = remove_listener(listeners)
                    /\ firedThisTurn' = firedThisTurn + 1
                    /\ phase' = "fired"
               ELSE UNCHANGED <<listeners, firedThisTurn, phase>>
       ELSE /\ requested' = FALSE
            /\ UNCHANGED <<shots, pending, sound, texts, listeners,
                           firedThisTurn, phase>>
    /\ UNCHANGED <<hitVars, boardVars, shotMarks>>

\* HumanPlayer.handle_input(event), called by the input handler while the
\* player is registered.
HandleInput(event) ==
    /\ listeners > 0
    /\ lastEvent' = EventClass(event)
    /\ IF event.type = MOUSEBUTTONDOWN
          /\ in_rect(event.pos, get_top_left, get_size)
       THEN LET r == fire(CellOf(event.pos)) IN
            /\ requested' = TRUE
            /\ shots' = r.shots
            /\ pending' = r.pending
            /\ sound' = r.sound
            /\ texts' = r.texts
            /\ IF r.ok
               THEN /\ listeners' = remove_listener(listeners)
                    /\ firedThisTurn' = firedThisTurn + 1
                    /\ phase' = "fired"
               ELSE UNCHANGED <<listeners, firedThisTurn, phase>>
       ELSE /\ requested' = FALSE
            /\ UNCHANGED <<shots, pending, sound, texts, listeners,
                           firedThisTurn, phase>>
    /\ UNCHANGED <<hitVars, boardVars, shotMarks>>

\* The prompt show_hit ends with.
show_hit_text(hit_type) ==
    IF hit_type = SHOT_HIT_TYPE_MISS THEN "TEXT_GAME_SHOW_HIT_MISS"
    ELSE IF hit_type = SHOT_HIT_TYPE_HIT THEN "TEXT_GAME_SHOW_HIT_HIT"
    ELSE "TEXT_GAME_SHOW_HIT_SUNK"

\* HumanPlayer.show_hit(at, hit_type): the game manager shows the result of
\* the pending shot, whatever the opponent answered.
ShowHit(hit_type) ==
    /\ phase = "fired"
    /\ pending # <<>>
    /\ shotMarks' = shotMarks (+) SetToBag({pending[1]})
    /\ sound' = IF hit_type = SHOT_HIT_TYPE_MISS THEN "WaterExplosion" ELSE "Explosion"
    /\ texts' = show_hit_text(hit_type)
    /\ pending' = <<>>
    /\ phase' = IF hit_type = SHOT_HIT_TYPE_GAME_OVER THEN "over" ELSE "resolved"
    /\ UNCHANGED <<shots, listeners, lastEvent, requested, firedThisTurn, hitVars, boardVars>>

\* Variant of hit_text: the last branch is taken for GAME_OVER only.
hit_text_sunk_as_hit(hit_status) ==
    IF hit_status = SHOT_HIT_TYPE_MISS THEN "TEXT_GAME_GET_HIT_MISS"
    ELSE IF hit_status = SHOT_HIT_TYPE_GAME_OVER THEN "TEXT_GAME_GET_HIT_SUNK"
    ELSE "TEXT_GAME_GET_HIT_HIT"

\* The prompt hit ends with.
hit_text(hit_status) ==
    IF hit_status = SHOT_HIT_TYPE_MISS THEN "TEXT_GAME_GET_HIT_MISS"
    ELSE IF hit_status = SHOT_HIT_TYPE_HIT THEN "TEXT_GAME_GET_HIT_HIT"
    ELSE "TEXT_GAME_GET_HIT_SUNK"

\* Variants of request_hit, each with one slip in the resolution of a shot.
\* The first ship takes the damage of a shot that touched no ship.
request_hit_damage_on_miss(f, at) ==
    LET touched_t == collision_check(f, at) IN
    IF touched_t = None
    THEN [fleet |-> damage(f, 1), status |-> SHOT_HIT_TYPE_MISS,
          marker |-> "WaterSplash", sound |-> "WaterExplosion"]
    ELSE LET g == damage(f, touched_t) IN
         [fleet |-> g,
          status |-> IF ~is_sunk(g, touched_t) THEN SHOT_HIT_TYPE_HIT
                     ELSE IF is_sunk_all(g) THEN SHOT_HIT_TYPE_GAME_OVER
                     ELSE SHOT_HIT_TYPE_HIT_AND_SUNK,
          marker |-> "BoatDamage", sound |-> "Explosion"]

\* Every ship of the fleet takes the damage of a shot on one of them.
request_hit_damage_all(f, at) ==
    LET touched_t == collision_check(f, at) IN
    IF touched_t = None
    THEN [fleet |-> f, status |-> SHOT_HIT_TYPE_MISS,
          marker |-> "WaterSplash", sound |-> "WaterExplosion"]
    ELSE LET g == [i \in DOMAIN f |-> [f[i] EXCEPT !.damage = @ + 1]] IN
         [fleet |-> g,
          status |-> IF ~is_sunk(g, touched_t) THEN SHOT_HIT_TYPE_HIT
                     ELSE IF is_sunk_all(g) THEN SHOT_HIT_TYPE_GAME_OVER
                     ELSE SHOT_HIT_TYPE_HIT_AND_SUNK,
          marker |-> "BoatDamage", sound |-> "Explosion"]

\* The touched ship is damaged twice.
request_hit_double_damage(f, at) ==
    LET touched_t == collision_check(f, at) IN
    IF touched_t = None
    THEN [fleet |-> f, status |-> SHOT_HIT_TYPE_MISS,
          marker |-> "WaterSplash", sound |-> "WaterExplosion"]
    ELSE LET g == damage(damage(f, touched_t), touched_t) IN
         [fleet |-> g,
          status |-> IF ~is_sunk(g, touched_t) THEN SHOT_HIT_TYPE_HIT
                     ELSE IF is_sunk_all(g) THEN SHOT_HIT_TYPE_GAME_OVER
                     ELSE SHOT_HIT_TYPE_HIT_AND_SUNK,
          marker |-> "BoatDamage", sound |-> "Explosion"]

\* The two branches of the all-sunk test are exchanged.
request_hit_swapped(f, at) ==
    LET touched_t == collision_check(f, at) IN
    IF touched_t = None
    THEN [fleet |-> f, status |-> SHOT_HIT_TYPE_MISS,
          marker |-> "WaterSplash", sound |-> "WaterExplosion"]
    ELSE LET g == damage(f, touched_t) IN
         [fleet |-> g,
          status |-> IF ~is_sunk(g, touched_t) THEN SHOT_HIT_TYPE_HIT
                     ELSE IF is_sunk_all(g) THEN SHOT_HIT_TYPE_HIT_AND_SUNK
                     ELSE SHOT_HIT_TYPE_GAME_OVER,
          marker |-> "BoatDamage", sound |-> "Explosion"]

\* The all-sunk test reads the fleet as it was before the damage.
request_hit_stale_all(f, at) ==
    LET touched_t == collision_check(f, at) IN
    IF touched_t = None
    THEN [fleet |-> f, status |-> SHOT_HIT_TYPE_MISS,
          marker |-> "WaterSplash", sound |-> "WaterExplosion"]
    ELSE LET g == damage(f, touched_t) IN
         [fleet |-> g,
          status |-> IF ~is_sunk(g, touched_t) THEN SHOT_HIT_TYPE_HIT
                     ELSE IF is_sunk_all(f) THEN SHOT_HIT_TYPE_GAME_OVER
                     ELSE SHOT_HIT_TYPE_HIT_AND_SUNK,
          marker |-> "BoatDamage", sound |-> "Explosion"]

\* The all-sunk test is missing: a sunk ship ends the game.
request_hit_no_all_check(f, at) ==
    LET touched_t == collision_check(f, at) IN
    IF touched_t = None
    THEN [fleet |-> f, status |-> SHOT_HIT_TYPE_MISS,
          marker |-> "WaterSplash", sound |-> "WaterExplosion"]
    ELSE LET g == damage(f, touched_t) IN
         [fleet |-> g,
          status |-> IF ~is_sunk(g, touched_t) THEN SHOT_HIT_TYPE_HIT
                     ELSE SHOT_HIT_TYPE_GAME_OVER,
          marker |-> "BoatDamage", sound |-> "Explosion"]

\* The sunk test of the touched ship reads the fleet as it was before the damage.
request_hit_stale_sunk(f, at) ==
    LET touched_t == collision_check(f, at) IN
    IF touched_t = None
    THEN [fleet |-> f, status |-> SHOT_HIT_TYPE_MISS,
          marker |-> "WaterSplash", sound |-> "WaterExplosion"]
    ELSE LET g == damage(f, touched_t) IN
         [fleet |-> g,
          status |-> IF ~is_sunk(f, touched_t) THEN SHOT_HIT_TYPE_HIT
                     ELSE IF is_sunk_all(g) THEN SHOT_HIT_TYPE_GAME_OVER
                     ELSE SHOT_HIT_TYPE_HIT_AND_SUNK,
          marker |-> "BoatDamage", sound |-> "Explosion"]

\* HumanPlayer.request_hit(at) as a function of the fleet: the fleet it
\* leaves, the status it passes to hit, the marker and the sound.
request_hit(f, at) ==
    LET touched_t == collision_check(f, at) IN
    IF touched_t = None
    THEN [fleet |-> f, status |-> SHOT_HIT_TYPE_MISS,
          marker |-> "WaterSplash", sound |-> "WaterExplosion"]
    ELSE LET g == damage(f, touched_t) IN
         [fleet |-> g,
          status |-> IF ~is_sunk(g, touched_t) THEN SHOT_HIT_TYPE_HIT
                     ELSE IF is_sunk_all(g) THEN SHOT_HIT_TYPE_GAME_OVER
                     ELSE SHOT_HIT_TYPE_HIT_AND_SUNK,
          marker |-> "BoatDamage", sound |-> "Explosion"]

\* HumanPlayer.request_hit(at): the engine asks for the status of a shot the
\* opponent's Player.fire accepted; the status goes to HumanPlayer.hit.
RequestHit(at) ==
    /\ phase = "awaiting_opponent"
    /\ PlayerFire(oppShots, at).ok
    /\ oppShots' = PlayerFire(oppShots, at).fired
    /\ LET r == request_hit(fleet, at) IN
       /\ fleet' = r.fleet
       /\ shipMarks' = shipMarks (+) SetToBag({<<at, r.marker>>})
       /\ sound' = r.sound
       /\ hitAt' = <<at>>
       /\ hitStatus' = r.status
       /\ texts' = hit_text(r.status)
       /\ phase' = IF r.status = SHOT_HIT_TYPE_GAME_OVER THEN "over" ELSE "idle"
    /\ UNCHANGED <<playerVars, boardVars, shotMarks>>

Next ==
    \/ StartGame
    \/ StartTurn
    \/ RequestShot
    \/ \E event \in Events : HandleInput(event)
    \/ \E hit_type \in HitTypes : ShowHit(hit_type)
    \/ EndTurn
    \/ AwaitOpponentShot
    \/ \E at \in Cells : RequestHit(at)

Spec == Init /\ [][Next]_vars

\* ----------------------------------------------------------------- claims
\* A step in which request_hit resolves the opponent's shot at `at`.
ResolvedAt(at) == at \notin oppShots /\ oppShots' = oppShots \cup {at}

\* A ship every cell of which has taken a point of damage.
FullyDamaged(f, i) == f[i].damage = ShipLength(f[i])

\* The damage of every ship, summed.
RECURSIVE DamageUpTo(_, _)
DamageUpTo(f, n) == IF n = 0 THEN 0 ELSE f[n].damage + DamageUpTo(f, n - 1)

TotalDamage(f) == DamageUpTo(f, Len(f))

ShipCells(f) == UNION { f[i].cells : i \in DOMAIN f }

\* The cells that carry a marker of the ship board.
MarkedCells == { m[1] : m \in BagToSet(shipMarks) }

\* C1: a request_hit at a coordinate where the collision lookup finds no
\* ship reports MISS and leaves the damage of every ship unchanged.
C1_MissKeepsDamage ==
    [][\A at \in Cells :
         (ResolvedAt(at) /\ collision_check(fleet, at) = None)
         => (hitStatus' = SHOT_HIT_TYPE_MISS /\ hitAt' = <<at>> /\ fleet' = fleet)]_vars

\* A miss was reported at an empty cell while some ship is already damaged.
C1_Witness ==
    /\ hitStatus = SHOT_HIT_TYPE_MISS
    /\ hitAt # <<>>
    /\ collision_check(fleet, hitAt[1]) = None
    /\ TotalDamage(fleet) > 0

\* C2: a request_hit at a coordinate where the collision lookup finds a ship
\* adds exactly one to that ship's damage and changes no other ship.
C2_HitDamagesOneShip ==
    [][\A at \in Cells :
         (ResolvedAt(at) /\ collision_check(fleet, at) # None)
         => LET t == collision_check(fleet, at) IN
            /\ DOMAIN fleet' = DOMAIN fleet
            /\ fleet'[t].damage = fleet[t].damage + 1
            /\ fleet'[t].cells = fleet[t].cells
            /\ \A i \in DOMAIN fleet : i # t => fleet'[i] = fleet[i]]_vars

\* A shot touched one ship of a two-ship fleet whose other ship is damaged too.
C2_Witness ==
    /\ Len(fleet) = 2
    /\ hitAt # <<>>
    /\ collision_check(fleet, hitAt[1]) = 1
    /\ fleet[1].damage = 1
    /\ fleet[2].damage = 1

\* C3: request_hit reports one status: MISS if no ship is at the coordinate;
\* otherwise, after the increment, HIT if the touched ship is not fully
\* damaged, HIT_AND_SUNK if this shot completed its damage and another ship
\* is not fully damaged, GAME_OVER if all ships are fully damaged; and one of
\* these cases applies to every shot.
C3_StatusOfShot ==
    [][\A at \in Cells :
         ResolvedAt(at)
         => LET t == collision_check(fleet, at) IN
            /\ hitStatus' \in HitTypes
            /\ t = None => hitStatus' = SHOT_HIT_TYPE_MISS
            /\ t # None =>
                 LET notSunk == ~FullyDamaged(fleet', t)
                     newlySunk == FullyDamaged(fleet', t) /\ ~FullyDamaged(fleet, t)
                     allSunk == \A i \in DOMAIN fleet' : FullyDamaged(fleet', i)
                 IN
                 /\ notSunk => hitStatus' = SHOT_HIT_TYPE_HIT
                 /\ (newlySunk /\ ~allSunk) => hitStatus' = SHOT_HIT_TYPE_HIT_AND_SUNK
                 /\ allSunk => hitStatus' = SHOT_HIT_TYPE_GAME_OVER
                 /\ notSunk \/ (newlySunk /\ ~allSunk) \/ allSunk]_vars

\* A ship was sunk while another one remains.
C3_Witness ==
    /\ hitStatus = SHOT_HIT_TYPE_HIT_AND_SUNK
    /\ \E i \in DOMAIN fleet : ~FullyDamaged(fleet, i)

\* C4: whenever all ships are sunk, the status reported is GAME_OVER.
C4_AllSunkIsGameOver ==
    (\A i \in DOMAIN fleet : FullyDamaged(fleet, i))
    => hitStatus = SHOT_HIT_TYPE_GAME_OVER

\* Both ships of a fleet are sunk and the first one was hit last.
C4_Witness ==
    /\ Len(fleet) = 2
    /\ \A i \in DOMAIN fleet : FullyDamaged(fleet, i)
    /\ hitAt # <<>>
    /\ hitAt[1] \in fleet[1].cells

OutsideEvents == { e \in Events : EventClass(e) = "outside" }

\* C9: a mouse press outside the shot board's rectangle calls no fire and
\* changes neither the shots fired, the fleet, the boards' visibility nor the
\* listener registration.
C9_OutsideClickIgnored ==
    [][(listeners > 0 /\ lastEvent' = "outside")
       => \A event \in OutsideEvents :
            HandleInput(event)
            => /\ requested' = FALSE
               /\ UNCHANGED <<shots, pending, fleet, ship_board, shot_board, listeners>>]_vars

\* A press outside the board was handled in a turn after the first shot.
C9_Witness ==
    /\ lastEvent = "outside"
    /\ shots # {}
    /\ listeners = 1

\* C10: at most one fire call returns true between two request_shot calls,
\* and once it has, the player is no longer registered as a listener.
C10_OneShotPerTurn ==
    /\ firedThisTurn <= 1
    /\ firedThisTurn = 1 => listeners = 0

\* The second turn's shot has been fired.
C10_Witness ==
    /\ firedThisTurn = 1
    /\ Cardinality(shots) = 2
    /\ phase = "fired"

\* C11: the player is registered in the input handler at most once.
C11_SingleListener == listeners <= 1

\* The player is registered again, for the turn after its first shot.
C11_Witness ==
    /\ listeners = 1
    /\ Cardinality(shots) = 1
    /\ phase = "awaiting_input"

\* C12: every fire request of handle_input carries a cell of the grid: for
\* every press the bounding-rectangle check accepts, edges included, the
\* coordinate (press - top left) // cell size is within 0 .. GridN - 1 on
\* both axes.
C12_FireCellInGrid ==
    [][(listeners > 0 /\ requested')
       => \A event \in Events :
            (HandleInput(event) /\ requested') => CellOf(event.pos) \in Cells]_vars

\* A step in which handle_input issues a fire request that shows in the state.
FireIssued == requested' /\ (~requested \/ shots' # shots)

\* C13: a fire request is issued only while the listener is registered after
\* a request_shot and before the turn's valid shot; in every other state the
\* player is not registered, so a click there reaches no handler; and the
\* turn goes from awaiting input to fired, by a fire request, and from fired
\* to resolved.
C13_FireOnlyWhileAwaitingInput ==
    [][/\ FireIssued
          => (phase = "awaiting_input" /\ listeners > 0 /\ firedThisTurn = 0)
       /\ listeners > 0 => phase = "awaiting_input"
       /\ listeners' > 0 => phase' = "awaiting_input"
       /\ (phase' = "fired" /\ phase # "fired")
          => (phase = "awaiting_input" /\ FireIssued)
       /\ (phase' = "resolved" /\ phase # "resolved") => phase = "fired"]_vars

\* The second turn went through its three stages.
C13_Witness ==
    /\ phase = "resolved"
    /\ requested
    /\ Cardinality(shots) = 2
    /\ listeners = 0

\* The events that are no mouse press.
OtherEvents == { e \in Events : EventClass(e) = "other" }

\* C14: an event that is no mouse press calls no fire and changes nothing of
\* the player; the listener stays registered.
C14_OtherEventIgnored ==
    [][(listeners > 0 /\ lastEvent' = "other")
       => \A event \in OtherEvents :
            HandleInput(event)
            => /\ requested' = FALSE
               /\ UNCHANGED <<fleet, shots, oppShots, listeners, ship_board,
                              shot_board, texts, sound, hitAt, hitStatus,
                              shipMarks, shotMarks, pending, phase,
                              firedThisTurn>>]_vars

\* An event that is no mouse press was handled in the second turn.
C14_Witness ==
    /\ lastEvent = "other"
    /\ listeners = 1
    /\ Cardinality(shots) = 1

\* The mouse presses the bounding-rectangle check accepts.
InsideEvents == { e \in Events : EventClass(e) = "inside" }

\* C15: a press on the shot board whose fire the parent rejects plays no fire
\* sound and shows no shoot prompt, records nothing, and leaves the player
\* registered and awaiting input, with coordinates left to fire upon.
C15_RejectedFireKeepsListening ==
    [][(listeners > 0 /\ requested' /\ shots # {})
       => \A event \in InsideEvents :
            (CellOf(event.pos) \in shots /\ HandleInput(event))
            => /\ UNCHANGED <<sound, texts, shots, pending, listeners, phase,
                              firedThisTurn>>
               /\ sound' # "Fire"
               /\ texts' # "TEXT_GAME_DO_SHOOT"
               /\ listeners' > 0
               /\ phase' = "awaiting_input"
               /\ \E later \in InsideEvents : CellOf(later.pos) \notin shots']_vars

\* In the third turn a press on a coordinate already fired upon was rejected.
C15_Witness ==
    /\ lastEvent = "inside"
    /\ requested
    /\ firedThisTurn = 0
    /\ Cardinality(shots) = 2
    /\ listeners = 1

\* Both boards exist and exactly one of them is visible.
ExactlyOneVisible ==
    /\ ship_board \in {"visible", "hidden"}
    /\ shot_board \in {"visible", "hidden"}
    /\ (ship_board = "visible") # (shot_board = "visible")

\* C16: from start_game on exactly one board is visible: the ship board
\* after start_game and after await_opponent_shot, the shot board after
\* request_shot; no other operation changes the visibility of a board.
C16_OneBoardVisible ==
    [][/\ phase # "new" => ExactlyOneVisible
       /\ phase' # "new" => ExactlyOneVisible'
       /\ (phase = "new" /\ phase' # "new")
          => (ship_board' = "visible" /\ shot_board' = "hidden")
       /\ (phase = "ended" /\ phase' = "awaiting_opponent")
          => (ship_board' = "visible" /\ shot_board' = "hidden")
       /\ (phase = "turn" /\ phase' = "awaiting_input")
          => (shot_board' = "visible" /\ ship_board' = "hidden")
       /\ (ship_board' # ship_board \/ shot_board' # shot_board)
          => \/ phase = "new" /\ phase' = "idle"
             \/ phase = "turn" /\ phase' = "awaiting_input"
             \/ phase = "ended" /\ phase' = "awaiting_opponent"]_vars

\* The ship board is shown again while the opponent's shot is awaited.
C16_Witness ==
    /\ phase = "awaiting_opponent"
    /\ ship_board = "visible"
    /\ shot_board = "hidden"
    /\ Cardinality(shots) = 1

\* C17: every shot request_hit resolves is at a cell not shot before, so
\* there are at most as many as the board has cells; by the time every ship
\* cell is shot, and so by the time every cell is, GAME_OVER is reported; and
\* no shot is resolved after it, so one shot reports it.
C17_GameOverWithinBoard ==
    [][/\ Cardinality(oppShots') <= GridN * GridN
       /\ oppShots' = Cells => hitStatus' = SHOT_HIT_TYPE_GAME_OVER
       /\ ShipCells(fleet') \subseteq oppShots'
          => hitStatus' = SHOT_HIT_TYPE_GAME_OVER
       /\ oppShots' # oppShots
          => /\ oppShots \subseteq oppShots'
             /\ Cardinality(oppShots') = Cardinality(oppShots) + 1
             /\ hitStatus # SHOT_HIT_TYPE_GAME_OVER]_vars

\* GAME_OVER came with the shot at the last cell of the board.
C17_Witness ==
    /\ oppShots = Cells
    /\ hitStatus = SHOT_HIT_TYPE_GAME_OVER
    /\ phase = "over"

\* The prompts the statuses stand for: the miss, the hit and the sunk text.
PromptOf(status, miss, hit, sunk) ==
    CASE status = SHOT_HIT_TYPE_MISS -> miss
      [] status = SHOT_HIT_TYPE_HIT -> hit
      [] status \in {SHOT_HIT_TYPE_HIT_AND_SUNK, SHOT_HIT_TYPE_GAME_OVER} -> sunk

\* C18: the prompt left by hit and by show_hit is the one of the status: the
\* miss text for MISS, the hit text for HIT, the sunk text for HIT_AND_SUNK
\* and for GAME_OVER.
C18_PromptOfStatus ==
    [][/\ oppShots' # oppShots
          => texts' = PromptOf(hitStatus', "TEXT_GAME_GET_HIT_MISS",
                               "TEXT_GAME_GET_HIT_HIT", "TEXT_GAME_GET_HIT_SUNK")
       /\ \A hit_type \in HitTypes :
            ShowHit(hit_type)
            => texts' = PromptOf(hit_type, "TEXT_GAME_SHOW_HIT_MISS",
                                 "TEXT_GAME_SHOW_HIT_HIT", "TEXT_GAME_SHOW_HIT_SUNK")]_vars

\* The sunk prompt of show_hit is up after a ship of the player's was sunk.
C18_Witness ==
    /\ texts = "TEXT_GAME_SHOW_HIT_SUNK"
    /\ hitStatus = SHOT_HIT_TYPE_HIT_AND_SUNK

====
